---- MODULE Spec2Model ----
(***************************************************************************)
(* zerocrud: the storage adapters and the CRUD facade in front of them.    *)
(*                                                                         *)
(* Spec models MemoryAdapter (src/src/zerocrud/adapters.py): its state is  *)
(* the list _data and the integer _counter, and every public method is one *)
(* atomic action (the library is synchronous and single-threaded, each     *)
(* call runs to completion at the call site).  SpecIso runs two            *)
(* MemoryAdapter instances, SpecDb models DatabaseAdapter over its         *)
(* session, SpecPair drives a MemoryAdapter and a DatabaseAdapter with the *)
(* same calls, SpecFacade models CRUDMeta and CRUDBase                     *)
(* (src/src/zerocrud/core.py), and SpecConc lets two threads run           *)
(* MemoryAdapter.create on one adapter, one access to the shared state per *)
(* step.  All start from Init, where every object is as its constructor    *)
(* leaves it; each moves its own variables only.                           *)
(*                                                                         *)
(* Encoding of Python values.  A mapping (dict) handed to create or update *)
(* is a record over the keys id, name, email and extra ("extra" stands for *)
(* a key the entity type does not declare and holds that key's name).  A   *)
(* key that is not in the dict holds Missing / MissingStr.  The value None *)
(* of the key "id" is                                                      *)
(* NoneId.  Integer ids are naturals; Missing and NoneId are negative      *)
(* tags, never ids.                                                        *)
(*                                                                         *)
(* Observation.  The adapter's behaviour depends on _data and _counter     *)
(* only.  last records one call in full (arguments, the state it started   *)
(* from, what it returned); a run is any sequence of unrecorded calls      *)
(* followed by at most one recorded call, so every call from every         *)
(* reachable adapter state is recorded in some run.  History variables     *)
(* about the create calls so far: lastAuto is the id of the latest entity  *)
(* created without an explicit id, lastAssigned the id the latest create   *)
(* call assigned (0 when there is none), netCreated the number of creates  *)
(* that returned an entity minus the number of deletes that returned True. *)
(***************************************************************************)
EXTENDS Integers, Sequences, FiniteSets, TLC

VARIABLES _data, _counter, last, lastAuto, lastAssigned, netCreated

(* Several MemoryAdapter instances side by side: lists holds the Python    *)
(* list objects allocated so far, adapters the instances, each with the    *)
(* index of the list its _data attribute refers to and its own _counter;   *)
(* target is the instance the latest call was made on (0: none yet).       *)
VARIABLES lists, adapters, target

(* DatabaseAdapter: session is the external session the adapter holds a    *)
(* reference to, with the table behind it; dbLast records one adapter call *)
(* in full, as last does for MemoryAdapter.                                *)
VARIABLES session, dbLast

(* The two adapters driven side by side with the same calls: pairLast      *)
(* records one such call with what either adapter returned.                *)
VARIABLES pairLast

(* The facade: subtype is the class a definition `class Name(Base[Param])` *)
(* produced (or the error it raised), facade the instance constructed from *)
(* it with the adapter it bound; a memory-backed facade works on _data and *)
(* _counter, a database-backed one on session.  step counts how far the    *)
(* calls made on the facade so far follow the end-to-end scenario, fres is *)
(* what the latest of these calls returned.                                *)
VARIABLES subtype, facade, step, fres

(* Threads that call create on one MemoryAdapter with nothing to           *)
(* coordinate them: threads[t] is where thread t stands in create (pc),    *)
(* its data argument and the counter value it has loaded for               *)
(* "self._counter += 1" (tmp); overlapped tells that some thread has taken *)
(* a step while another was inside create.                                 *)
VARIABLES threads, overlapped

memVars == <<_data, _counter, last, lastAuto, lastAssigned, netCreated>>
isoVars == <<lists, adapters, target>>
dbVars == <<session, dbLast>>
facVars == <<subtype, facade, step, fres>>
concVars == <<threads, overlapped>>
vars == <<memVars, isoVars, dbVars, pairLast, facVars, concVars>>

IsoIdle == lists = << >> /\ adapters = << >> /\ target = 0

(* The session as conftest.py builds it: a new Session on an empty table,  *)
(* nothing registered, no failed transaction to roll back.                 *)
NewSession == [rows |-> << >>, pending |-> << >>, broken |-> FALSE, held |-> << >>]

NoDbCall ==
    [op |-> "none", id |-> 0,
     p |-> [id |-> 0 - 2, name |-> "MISSING", email |-> "MISSING", extra |-> "MISSING"],
     skip |-> 0, limit |-> 0, fail |-> "none", err |-> "none",
     outcome |-> "None", ret |-> << >>, n |-> 0, log |-> << >>, s0 |-> NewSession]

DbIdle == session = NewSession /\ dbLast = NoDbCall

NoPair == [op |-> "none"]

(* class CRUDBase(Generic[T], metaclass=CRUDMeta): model = None.  A class  *)
(* is its name, its __orig_bases__ (each the name of the origin and the    *)
(* type arguments), its model attribute, whether it can be subscripted,    *)
(* the error its definition raised, the type argument its definition gave  *)
(* and the model it found on its base.                                     *)
CRUDBase ==
    [name |-> "CRUDBase", orig_bases |-> <<[origin |-> "Generic", args |-> <<"T">>]>>,
     model |-> "None", generic |-> TRUE, error |-> "none",
     arg |-> "T", inherited |-> "None"]

NoFacade ==
    [built |-> FALSE, storage |-> "None", session |-> "None",
     adapter |-> "none", error |-> "none"]

NoRes == [outcome |-> "none", ret |-> << >>, n |-> 0]

FacIdle == subtype = CRUDBase /\ facade = NoFacade /\ step = 0 /\ fres = NoRes

(* Two threads, neither inside create *)
Threads == {"t1", "t2"}

IdleThread ==
    [pc |-> "idle",
     data |-> [id |-> 0 - 2, name |-> "MISSING", email |-> "MISSING", extra |-> "MISSING"],
     tmp |-> 0]

ConcIdle == threads = [t \in Threads |-> IdleThread] /\ overlapped = FALSE

-----------------------------------------------------------------------------
(* Bounds of the model *)

MaxId == 3          \* ids a caller supplies are 1..MaxId; create is called
                    \* while _counter <= MaxId
MaxLen == 2         \* create is called while the store holds fewer entities

(* Tags of the encoding *)
Missing == 0 - 2
NoneId == 0 - 1
MissingStr == "MISSING"

Names == {"a", "b"}
Emails == {"x"}
IdVals == 1 .. MaxId
IdArgs == 1 .. (MaxId + 1)
SkipArgs == (0 - 2) .. (MaxLen + 1)
LimitArgs == (0 - 2) .. (MaxLen + 1)

(* The dicts a caller passes.  Construction drops a key the entity type    *)
(* does not declare, so it cannot reach the memory adapter's state: the    *)
(* calls of the memory adapter are drawn without one.                      *)
Mappings ==
    [id : {Missing, NoneId} \cup IdVals,
     name : {MissingStr} \cup Names,
     email : {MissingStr} \cup Emails,
     extra : {MissingStr}]

NoMapping == [id |-> Missing, name |-> MissingStr, email |-> MissingStr, extra |-> MissingStr]

-----------------------------------------------------------------------------
(* The entity type: User of tests/conftest.py, fields id: int, name: str,  *)
(* email: str.  Construction validates the mapping (a required field that  *)
(* is missing, or None for the int field id, is a ValidationError) and     *)
(* ignores keys the type does not declare.  create builds the entity with  *)
(* model_validate(data), update by calling the model class on the merged   *)
(* mapping ("Create new validated instance"); both are modelled as         *)
(* validated construction.                                                 *)

Valid(d) ==
    /\ d.id # NoneId
    /\ d.name \in Names
    /\ d.email \in Emails

Construct(d) ==
    [id |-> IF d.id = Missing THEN NoneId ELSE d.id, name |-> d.name, email |-> d.email]

(* item.model_dump(): the entity's fields as a mapping *)
ModelDump(e) == [id |-> e.id, name |-> e.name, email |-> e.email, extra |-> MissingStr]

-----------------------------------------------------------------------------
(* Helpers that compute what the Python expressions of the adapter compute *)

Min(a, b) == IF a < b THEN a ELSE b
Max(a, b) == IF a > b THEN a ELSE b

(* A slice bound of a list of length n, as Python clamps it: a negative    *)
(* bound counts from the end, and every bound is clamped into 0..n.        *)
SliceBound(i, n) == IF i < 0 THEN Max(i + n, 0) ELSE Min(i, n)

(* s[lo:hi] of a Python list (0-based, hi exclusive) *)
PySlice(s, lo, hi) ==
    LET a == SliceBound(lo, Len(s))
        b == SliceBound(hi, Len(s))
    IN IF a < b THEN SubSeq(s, a + 1, b) ELSE << >>

(* Position (1-based) of the first item whose id is `id`, 0 when none *)
FirstIndex(s, id) ==
    IF \E i \in 1 .. Len(s) : s[i].id = id
    THEN CHOOSE i \in 1 .. Len(s) :
            /\ s[i].id = id
            /\ \A j \in 1 .. (i - 1) : s[j].id # id
    ELSE 0

(* list.remove(item): drops the first element equal to item *)
ListRemove(s, item) ==
    LET k == CHOOSE i \in 1 .. Len(s) :
                /\ s[i] = item
                /\ \A j \in 1 .. (i - 1) : s[j] # item
    IN SubSeq(s, 1, k - 1) \o SubSeq(s, k + 1, Len(s))

(* Mutant of DictUpdate: the merge the wrong way round, the current values *)
(* win over the supplied ones.                                             *)
DictUpdate_CurrentWins(cur, p) == cur

(* item_data.update(data): the keys of p overwrite those of cur *)
DictUpdate(cur, p) ==
    [id |-> IF p.id # Missing THEN p.id ELSE cur.id,
     name |-> IF p.name # MissingStr THEN p.name ELSE cur.name,
     email |-> IF p.email # MissingStr THEN p.email ELSE cur.email,
     extra |-> IF p.extra # MissingStr THEN p.extra ELSE cur.extra]

(* Mutant of AssignId: an explicit id above the counter is kept but the    *)
(* counter is set to it, not past it.                                      *)
AssignId_NoBump(d, c) ==
    IF d.id # Missing /\ d.id # NoneId
    THEN IF d.id > c
         THEN [data |-> d, counter |-> d.id]
         ELSE [data |-> [d EXCEPT !.id = c], counter |-> c + 1]
    ELSE [data |-> [d EXCEPT !.id = c], counter |-> c + 1]

(* Mutant of AssignId: every explicit id is honoured, the counter only     *)
(* moving forward.                                                         *)
AssignId_KeepsAny(d, c) ==
    IF d.id # Missing /\ d.id # NoneId
    THEN [data |-> d, counter |-> IF d.id >= c THEN d.id + 1 ELSE c]
    ELSE [data |-> [d EXCEPT !.id = c], counter |-> c + 1]

(* Mutant of AssignId: an explicit id always moves the counter to id + 1,  *)
(* also backwards.                                                         *)
AssignId_FollowsExplicit(d, c) ==
    IF d.id # Missing /\ d.id # NoneId
    THEN [data |-> IF d.id > c THEN d ELSE [d EXCEPT !.id = c], counter |-> d.id + 1]
    ELSE [data |-> [d EXCEPT !.id = c], counter |-> c + 1]

(* The id policy of create: the mapping and the counter after lines        *)
(* 213-223, before validation.                                             *)
AssignId(d, c) ==
    LET s1 == IF d.id # Missing /\ d.id # NoneId
              THEN IF d.id > c
                   THEN [data |-> d, counter |-> d.id + 1]
                   ELSE [data |-> [d EXCEPT !.id = c], counter |-> c + 1]
              ELSE [data |-> d, counter |-> c]
    IN IF s1.data.id = Missing \/ s1.data.id = NoneId
       THEN [data |-> [s1.data EXCEPT !.id = s1.counter], counter |-> s1.counter + 1]
       ELSE s1

-----------------------------------------------------------------------------
(* The methods of MemoryAdapter as functions of the adapter state (s is    *)
(* _data, c is _counter) and the arguments.  The result holds the state    *)
(* after the call and what the call returned: outcome is "entity", "None", *)
(* "True", "False", "list", "int" or "ValidationError" (raised); ret is    *)
(* the returned entity (<< e >>), the returned list, or << >>; n is the    *)
(* returned integer.                                                       *)

Result(s, c, outcome, ret, n) ==
    [data |-> s, counter |-> c, outcome |-> outcome, ret |-> ret, n |-> n]

(* Mutant of MemCreate: an entity created without an id gets the length of *)
(* the store plus one.                                                     *)
MemCreate_IdFromLength(s, c, data) ==
    LET a == IF data.id \in {Missing, NoneId}
             THEN [data |-> [data EXCEPT !.id = Len(s) + 1], counter |-> c + 1]
             ELSE AssignId(data, c)
    IN IF Valid(a.data)
       THEN Result(Append(s, Construct(a.data)), a.counter, "entity",
                   << Construct(a.data) >>, 0)
       ELSE Result(s, a.counter, "ValidationError", << >>, 0)

(* MemoryAdapter.create(data) *)
MemCreate(s, c, data) ==
    LET a == AssignId(data, c)
    IN IF Valid(a.data)
       THEN Result(Append(s, Construct(a.data)), a.counter, "entity",
                   << Construct(a.data) >>, 0)
       ELSE Result(s, a.counter, "ValidationError", << >>, 0)

(* Mutant of MemGet: the entity found is moved to the front of the list.   *)
MemGet_MovesToFront(s, c, id) ==
    IF FirstIndex(s, id) = 0
    THEN Result(s, c, "None", << >>, 0)
    ELSE Result(<< s[FirstIndex(s, id)] >> \o SubSeq(s, 1, FirstIndex(s, id) - 1)
                    \o SubSeq(s, FirstIndex(s, id) + 1, Len(s)),
                c, "entity", << s[FirstIndex(s, id)] >>, 0)

(* MemoryAdapter.get(id) *)
MemGet(s, c, id) ==
    IF FirstIndex(s, id) = 0
    THEN Result(s, c, "None", << >>, 0)
    ELSE Result(s, c, "entity", << s[FirstIndex(s, id)] >>, 0)

(* Mutant of MemList: limit taken as the end index, self._data[skip:limit] *)
MemList_LimitAsEnd(s, c, skip, limit) ==
    Result(s, c, "list", PySlice(s, skip, limit), 0)

(* MemoryAdapter.list(skip, limit) *)
MemList(s, c, skip, limit) ==
    Result(s, c, "list", PySlice(s, skip, skip + limit), 0)

(* Mutant of MemUpdate: the supplied mapping is validated before the       *)
(* entity is looked up.                                                    *)
MemUpdate_ValidatesFirst(s, c, id, data) ==
    LET i == FirstIndex(s, id)
        item_data == DictUpdate(ModelDump(s[i]), data)
    IN IF data.id = NoneId
       THEN Result(s, c, "ValidationError", << >>, 0)
       ELSE IF i = 0
       THEN Result(s, c, "None", << >>, 0)
       ELSE Result([s EXCEPT ![i] = Construct(item_data)], c, "entity",
                   << Construct(item_data) >>, 0)

(* Mutant of MemUpdate: the rebuilt entity is appended and the old one     *)
(* removed.                                                                *)
MemUpdate_MovesToEnd(s, c, id, data) ==
    LET i == FirstIndex(s, id)
        item_data == DictUpdate(ModelDump(s[i]), data)
    IN IF i = 0
       THEN Result(s, c, "None", << >>, 0)
       ELSE IF Valid(item_data)
       THEN Result(SubSeq(s, 1, i - 1) \o SubSeq(s, i + 1, Len(s))
                       \o << Construct(item_data) >>,
                   c, "entity", << Construct(item_data) >>, 0)
       ELSE Result(s, c, "ValidationError", << >>, 0)

(* MemoryAdapter.update(id, data) *)
MemUpdate(s, c, id, data) ==
    LET i == FirstIndex(s, id)
        item_data == DictUpdate(ModelDump(s[i]), data)
    IN IF i = 0
       THEN Result(s, c, "None", << >>, 0)
       ELSE IF Valid(item_data)
       THEN Result([s EXCEPT ![i] = Construct(item_data)], c, "entity",
                   << Construct(item_data) >>, 0)
       ELSE Result(s, c, "ValidationError", << >>, 0)

(* Mutant of MemDelete: every entity with the id is dropped, not the first *)
(* one only.                                                               *)
MemDelete_RemovesAllMatching(s, c, id) ==
    IF FirstIndex(s, id) # 0
    THEN Result(SelectSeq(s, LAMBDA e : e.id # id), c, "True", << >>, 0)
    ELSE Result(s, c, "False", << >>, 0)

(* Mutant of MemDelete: a deletion winds the counter back to the size of   *)
(* the store.                                                              *)
MemDelete_ResetsCounter(s, c, id) ==
    LET item == MemGet(s, c, id).ret
    IN IF item # << >>
       THEN Result(ListRemove(s, item[1]), Len(s), "True", << >>, 0)
       ELSE Result(s, c, "False", << >>, 0)

(* Mutant of MemDelete: the last entity with the id is removed, not the    *)
(* first.                                                                  *)
MemDelete_RemovesLastMatch(s, c, id) ==
    LET k == CHOOSE i \in 0 .. Len(s) :
                /\ i # 0 => s[i].id = id
                /\ \A j \in (i + 1) .. Len(s) : s[j].id # id
    IN IF k # 0
       THEN Result(SubSeq(s, 1, k - 1) \o SubSeq(s, k + 1, Len(s)), c, "True", << >>, 0)
       ELSE Result(s, c, "False", << >>, 0)

(* MemoryAdapter.delete(id) *)
MemDelete(s, c, id) ==
    LET item == MemGet(s, c, id).ret
    IN IF item # << >>
       THEN Result(ListRemove(s, item[1]), c, "True", << >>, 0)
       ELSE Result(s, c, "False", << >>, 0)

(* MemoryAdapter.count() *)
MemCount(s, c) == Result(s, c, "int", << >>, Len(s))

-----------------------------------------------------------------------------
(* The recorded call: op, its arguments (id is the id argument; p the      *)
(* mapping of create / update), the state it started from (d0, c0, and the *)
(* history variables auto0, assigned0), and what it returned.              *)

Call(op, id, p, skip, limit, r) ==
    [op |-> op, id |-> id, p |-> p, skip |-> skip, limit |-> limit,
     outcome |-> r.outcome, ret |-> r.ret, n |-> r.n,
     d0 |-> _data, c0 |-> _counter, auto0 |-> lastAuto, assigned0 |-> lastAssigned]

NoCall ==
    [op |-> "none", id |-> Missing, p |-> NoMapping, skip |-> 0, limit |-> 0,
     outcome |-> "None", ret |-> << >>, n |-> 0,
     d0 |-> << >>, c0 |-> 1, auto0 |-> 0, assigned0 |-> 0]

(* One call: the adapter moves to the state r holds; the call is recorded  *)
(* in full when rec, and a recorded call ends the run (Next).  The reads   *)
(* change nothing, so only their recorded form is a step.                  *)
Apply(call, r, rec) ==
    /\ _data' = r.data
    /\ _counter' = r.counter
    /\ last' = IF rec THEN call ELSE NoCall
    /\ UNCHANGED <<isoVars, dbVars, pairLast, facVars, concVars>>

MemIdle ==
    /\ _data = << >>
    /\ _counter = 1
    /\ last = NoCall
    /\ lastAuto = 0
    /\ lastAssigned = 0
    /\ netCreated = 0

Init ==
    /\ MemIdle
    /\ IsoIdle
    /\ DbIdle
    /\ pairLast = NoPair
    /\ FacIdle
    /\ ConcIdle

create(data, rec) ==
    /\ Len(_data) < MaxLen
    /\ _counter <= MaxId
    /\ LET r == MemCreate(_data, _counter, data)
       IN /\ Apply(Call("create", data.id, data, 0, 0, r), r, rec)
          /\ lastAssigned' = AssignId(data, _counter).data.id
          /\ lastAuto' = IF r.outcome = "entity" /\ data.id \in {Missing, NoneId}
                         THEN r.ret[1].id ELSE lastAuto
          /\ netCreated' = IF r.outcome = "entity" THEN netCreated + 1 ELSE netCreated

get(id) ==
    /\ Apply(Call("get", id, NoMapping, 0, 0, MemGet(_data, _counter, id)),
             MemGet(_data, _counter, id), TRUE)
    /\ UNCHANGED <<lastAuto, lastAssigned, netCreated>>

list(skip, limit) ==
    /\ Apply(Call("list", Missing, NoMapping, skip, limit, MemList(_data, _counter, skip, limit)),
             MemList(_data, _counter, skip, limit), TRUE)
    /\ UNCHANGED <<lastAuto, lastAssigned, netCreated>>

update(id, data, rec) ==
    /\ Apply(Call("update", id, data, 0, 0, MemUpdate(_data, _counter, id, data)),
             MemUpdate(_data, _counter, id, data), rec)
    /\ UNCHANGED <<lastAuto, lastAssigned, netCreated>>

delete(id, rec) ==
    /\ Apply(Call("delete", id, NoMapping, 0, 0, MemDelete(_data, _counter, id)),
             MemDelete(_data, _counter, id), rec)
    /\ netCreated' = IF MemDelete(_data, _counter, id).outcome = "True"
                     THEN netCreated - 1 ELSE netCreated
    /\ UNCHANGED <<lastAuto, lastAssigned>>

count ==
    /\ Apply(Call("count", Missing, NoMapping, 0, 0, MemCount(_data, _counter)),
             MemCount(_data, _counter), TRUE)
    /\ UNCHANGED <<lastAuto, lastAssigned, netCreated>>

Next ==
    \/ last = NoCall /\ \E data \in Mappings, rec \in BOOLEAN : create(data, rec)
    \/ last = NoCall /\ \E id \in IdArgs : get(id)
    \/ last = NoCall /\ \E skip \in SkipArgs, limit \in LimitArgs : list(skip, limit)
    \/ last = NoCall /\ \E id \in IdArgs, data \in Mappings, rec \in BOOLEAN : update(id, data, rec)
    \/ last = NoCall /\ \E id \in IdArgs, rec \in BOOLEAN : delete(id, rec)
    \/ last = NoCall /\ count

Spec == Init /\ [][Next]_vars

-----------------------------------------------------------------------------
(* Properties.  Each is about the recorded call: last holds its arguments, *)
(* the state it started from (d0, c0) and its result; _data and _counter   *)
(* are the state it left.                                                  *)

Created == last.op = "create" /\ last.outcome = "entity"
ExplicitId == last.p.id \in IdVals
Total == Len(last.d0)

(* A valid mapping without an id, and the id a create of it would return   *)
(* in the current state.                                                   *)
AutoMapping == [id |-> Missing, name |-> "a", email |-> "x", extra |-> MissingStr]
NextAutoCreate == MemCreate(_data, _counter, AutoMapping)

(* C1: create with an explicit id k greater than the counter returns and   *)
(* stores an entity with id k and leaves the counter at k + 1, so that the *)
(* next create without an id returns id k + 1; in every adapter state.     *)
C1_ExplicitIdAboveCounterKept ==
    (Created /\ ExplicitId /\ last.p.id > last.c0) =>
        /\ last.ret[1].id = last.p.id
        /\ _data = Append(last.d0, last.ret[1])
        /\ _counter = last.p.id + 1
        /\ NextAutoCreate.outcome = "entity"
        /\ NextAutoCreate.ret[1].id = last.p.id + 1

C1_Witness ==
    /\ Created /\ ExplicitId /\ last.p.id > last.c0
    /\ last.c0 > 1
    /\ last.d0 # << >>

(* C2: create with an explicit id k less than or equal to the counter c    *)
(* (the tie k = c included) discards k: the entity gets id c and the       *)
(* counter becomes c + 1.                                                  *)
C2_ExplicitIdNotAboveCounterDiscarded ==
    (Created /\ ExplicitId /\ last.p.id <= last.c0) =>
        /\ last.ret[1].id = last.c0
        /\ _data = Append(last.d0, last.ret[1])
        /\ _counter = last.c0 + 1

C2_Witness ==
    /\ Created /\ ExplicitId /\ last.p.id = last.c0
    /\ last.c0 > 1

Auto == Created /\ last.p.id \in {Missing, NoneId}

(* C3 as claimed: an entity created without an explicit id gets id 1 when  *)
(* it is the first such entity and otherwise 1 more than the previous      *)
(* entity created without an explicit id.  Stated for the runs in which    *)
(* every create call so far has stored an entity and none was deleted (the *)
(* store holds c0 - 1 entities), so that what refutes it is a create that  *)
(* supplied an id.                                                         *)
C3_AutoIdsConsecutive ==
    (Auto /\ Len(last.d0) = last.c0 - 1) => last.ret[1].id = last.auto0 + 1

(* C3 as amended: an entity created without an explicit id gets id 1 when  *)
(* no create call came before, and otherwise 1 more than the id the        *)
(* previous create call assigned (with or without an explicit id,          *)
(* successful or not); calls other than create, deletions among them,      *)
(* never change which id comes next.                                       *)
C3_AutoIdFollowsLastAssigned ==
    /\ Auto => last.ret[1].id = last.assigned0 + 1
    /\ last.op \in {"get", "list", "update", "delete", "count"} =>
          NextAutoCreate.ret[1].id = last.assigned0 + 1

C3_Witness ==
    /\ Auto
    /\ last.d0 = << >>
    /\ last.auto0 >= 1
    /\ last.ret[1].id = last.auto0 + 1

(* C4: the counter is at least 1 more than every id assigned, and so than  *)
(* the id of every stored entity.                                          *)
C4_CounterAboveEveryId ==
    /\ _counter >= lastAssigned + 1
    /\ \A i \in 1 .. Len(_data) : _counter >= _data[i].id + 1

(* C5: update never reassigns identity: when update(id, data) finds an     *)
(* entity, the entity it returns and the entity stored at that position    *)
(* have id equal to the id argument, whatever keys data holds.             *)
C5_UpdateKeepsId ==
    (last.op = "update" /\ last.outcome = "entity") =>
        /\ last.ret[1].id = last.id
        /\ _data[FirstIndex(last.d0, last.id)].id = last.id

(* C6: no two stored entities have the same id. *)
C6_IdsUnique ==
    \A i, j \in 1 .. Len(_data) : _data[i].id = _data[j].id => i = j

(* The contract of list for one call: the number of entities returned and  *)
(* that they are the stored ones from index skip on.                       *)
ListContract ==
    /\ Len(last.ret) = Max(0, Min(last.limit, Total - last.skip))
    /\ \A j \in 1 .. Len(last.ret) :
          /\ last.skip + j \in 1 .. Total
          /\ last.ret[j] = last.d0[last.skip + j]
    /\ last.skip >= Total => last.ret = << >>
    /\ last.limit = 0 => last.ret = << >>

(* C7 as claimed: for every skip and limit, list returns                   *)
(* max(0, min(limit, total - skip)) entities, the contiguous part of the   *)
(* store that starts at index skip.                                        *)
C7_ListAnySkipLimit == last.op = "list" => ListContract

(* C7 as amended: the same for every skip >= 0 and limit >= 0. *)
C7_ListNonNegative ==
    (last.op = "list" /\ last.skip >= 0 /\ last.limit >= 0) => ListContract

C7_Witness ==
    /\ last.op = "list"
    /\ last.skip = 1 /\ last.limit = 1
    /\ Total = 2
    /\ last.ret = << last.d0[2] >>

C9_DeleteThenGetAbsent ==
    (last.op = "delete" /\ last.outcome = "True") =>
        /\ MemCount(_data, _counter).n = MemCount(last.d0, last.c0).n - 1
        /\ MemGet(_data, _counter, last.id).outcome = "None"

(* C10: for an id no stored entity has, get returns None, update returns   *)
(* None and delete returns False; none raises, and the stored sequence and *)
(* the counter stay as they were.                                          *)
C10_NotFoundIsNoError ==
    (last.op \in {"get", "update", "delete"} /\ FirstIndex(last.d0, last.id) = 0) =>
        /\ last.outcome = (IF last.op = "delete" THEN "False" ELSE "None")
        /\ last.ret = << >>
        /\ _data = last.d0
        /\ _counter = last.c0

C10_Witness ==
    /\ last.op = "update"
    /\ FirstIndex(last.d0, last.id) = 0
    /\ last.d0 # << >>
    /\ last.p.id = NoneId
    /\ last.outcome = "None"

(* C11: count() is 0 on an empty store, grows by exactly 1 with each       *)
(* create that returns an entity, and always equals the number of such     *)
(* creates minus the number of deletes that returned True; update, get,    *)
(* list and failed calls leave it as it was.                               *)
C11_CountIsCreatesMinusDeletes ==
    /\ MemCount(_data, _counter).n = netCreated
    /\ _data = << >> => MemCount(_data, _counter).n = 0
    /\ last.op # "none" =>
          MemCount(_data, _counter).n =
              MemCount(last.d0, last.c0).n
                  + (IF Created THEN 1 ELSE 0)
                  - (IF last.op = "delete" /\ last.outcome = "True" THEN 1 ELSE 0)
    /\ last.op = "count" => last.n = netCreated

C11_Witness ==
    /\ last.op = "count"
    /\ last.n = 1
    /\ _counter = 3
    /\ \E i \in 1 .. Len(_data) : _data[i].id # 2

(* C12: when create returns entity e, a get(e.id) that follows returns e   *)
(* itself (same id, same field values), not another stored entity.         *)
C12_CreateThenGetReturnsIt ==
    Created =>
        /\ MemGet(_data, _counter, last.ret[1].id).outcome = "entity"
        /\ MemGet(_data, _counter, last.ret[1].id).ret = last.ret

(* C16: a create or update that fails with a validation error leaves the   *)
(* stored sequence and the counter as they were, so the next create        *)
(* without an id gets the id it would have got without the failed call.    *)
C16_FailedCallChangesNothing ==
    last.outcome = "ValidationError" =>
        /\ _data = last.d0
        /\ _counter = last.c0
        /\ NextAutoCreate.ret[1].id = MemCreate(last.d0, last.c0, AutoMapping).ret[1].id

-----------------------------------------------------------------------------
(* CRUDBase.__init__: the backend a facade binds, from its two arguments.  *)
(* "None" stands for an argument left out; the result "ValueError" is the  *)
(* raise, after which the instance has no adapter.                         *)

StorageArgs == {"None", "memory", "database"}
SessionArgs == {"None", "Session"}

(* Mutant of SelectBackend: a supplied session decides before storage.     *)
SelectBackend_SessionFirst(storage, sess) ==
    IF sess # "None" THEN "database"
    ELSE IF storage = "database" THEN "ValueError"
    ELSE "memory"

SelectBackend(storage, sess) ==
    IF storage = "memory" THEN "memory"
    ELSE IF storage = "database"
         THEN IF sess = "None" THEN "ValueError" ELSE "database"
    ELSE IF sess # "None" THEN "database"
    ELSE "memory"

(* One call on the adapter interface, as a value: op and its arguments     *)
(* (those the op does not take are 0 / NoMapping).                         *)
CallOf(op, id, p, skip, limit) ==
    [op |-> op, id |-> id, p |-> p, skip |-> skip, limit |-> limit]

MemCall(s, c, k) ==
    CASE k.op = "create" -> MemCreate(s, c, k.p)
      [] k.op = "get"    -> MemGet(s, c, k.id)
      [] k.op = "list"   -> MemList(s, c, k.skip, k.limit)
      [] k.op = "update" -> MemUpdate(s, c, k.id, k.p)
      [] k.op = "delete" -> MemDelete(s, c, k.id)
      [] k.op = "count"  -> MemCount(s, c)

(* The calls made where several objects run side by side: mappings without *)
(* an id or with the id MaxId, with or without the required name.          *)
SmallMappings ==
    {m \in Mappings : m.id \in {Missing, MaxId} /\ m.name # "b" /\ m.email = "x"}

SmallCalls ==
    {CallOf("create", 0, m, 0, 0) : m \in SmallMappings}
        \cup {CallOf("get", id, NoMapping, 0, 0) : id \in IdVals}
        \cup {CallOf("list", 0, NoMapping, 0, MaxLen)}
        \cup {CallOf("update", id, m, 0, 0) : id \in IdVals, m \in SmallMappings}
        \cup {CallOf("delete", id, NoMapping, 0, 0) : id \in IdVals}
        \cup {CallOf("count", 0, NoMapping, 0, 0)}

-----------------------------------------------------------------------------
(* Two MemoryAdapter instances *)

(* Mutant of MemInit: _data is one list kept on the class, shared by every *)
(* instance.                                                               *)
MemInit_ClassLevelList(ls, byFacade) ==
    [lists |-> IF ls = << >> THEN << << >> >> ELSE ls,
     adapter |-> [_data |-> 1, _counter |-> 1, facade |-> byFacade]]

(* MemoryAdapter.__init__: a new empty list and the counter 1.  byFacade   *)
(* tells whether a facade constructed and bound the instance.              *)
MemInit(ls, byFacade) ==
    [lists |-> Append(ls, << >>),
     adapter |-> [_data |-> Len(ls) + 1, _counter |-> 1, facade |-> byFacade]]

Stored(i) == lists[adapters[i]._data]

(* MemoryAdapter(User), or a facade constructed with arguments that select *)
(* the memory backend.                                                     *)
newAdapter(byFacade, storage, sess) ==
    /\ Len(adapters) < 2
    /\ byFacade => SelectBackend(storage, sess) = "memory"
    /\ lists' = MemInit(lists, byFacade).lists
    /\ adapters' = Append(adapters, MemInit(lists, byFacade).adapter)
    /\ UNCHANGED <<target, memVars, dbVars, pairLast, facVars, concVars>>

(* The call k on instance i. *)
isoCall(i, k) ==
    /\ k.op = "create" => Len(Stored(i)) < MaxLen /\ adapters[i]._counter <= MaxId
    /\ LET r == MemCall(Stored(i), adapters[i]._counter, k)
       IN /\ lists' = [lists EXCEPT ![adapters[i]._data] = r.data]
          /\ adapters' = [adapters EXCEPT ![i]._counter = r.counter]
    /\ target' = i
    /\ UNCHANGED <<memVars, dbVars, pairLast, facVars, concVars>>

IsoNext ==
    \/ \E byFacade \in BOOLEAN, storage \in StorageArgs, sess \in SessionArgs :
           newAdapter(byFacade, storage, sess)
    \/ \E i \in 1 .. Len(adapters), k \in SmallCalls : isoCall(i, k)

SpecIso == Init /\ [][IsoNext]_vars

(* C20: a call on one MemoryAdapter instance, and the construction of a    *)
(* new instance, leave the stored sequence and the counter of every other  *)
(* instance unchanged, whether the instances were constructed directly or  *)
(* bound by facades.                                                       *)
C20_InstancesIsolated ==
    [][\A j \in 1 .. Len(adapters) :
          (Len(adapters') > Len(adapters) \/ j # target') =>
              /\ Stored(j)' = Stored(j)
              /\ adapters'[j] = adapters[j]]_vars

C20_Witness ==
    /\ Len(adapters) = 2
    /\ adapters[1].facade /\ adapters[2].facade
    /\ target = 1
    /\ Len(Stored(1)) = 1 /\ adapters[1]._counter = 2
    /\ Stored(2) = << >> /\ adapters[2]._counter = 1

-----------------------------------------------------------------------------
(* The session DatabaseAdapter drives (spec section 6: get by identity,    *)
(* add, delete, commit, refresh, a query with offset and limit), over the  *)
(* SQLite table of conftest.py.  rows is the committed table in ascending  *)
(* id order, pending the changes registered and not yet committed, broken  *)
(* tells that a commit failed, after which the session refuses to talk to  *)
(* the database (the adapter never calls rollback).  held is the object    *)
(* the session keeps in memory with values the table does not have: get    *)
(* by identity answers from it without asking the database.  A run x of    *)
(* one adapter call carries the session, the log of the session methods    *)
(* called so far, the error raised (or "none") and the object in hand.     *)
(* fail names the session method that raises err in this call ("none": no  *)
(* failure); add and delete only register an object and do not raise.      *)
(* commit can fail at two moments: while it writes the registered changes  *)
(* (fail = "commit": the transaction is rolled back and the objects are    *)
(* expired), or when the changes are written and the transaction cannot be *)
(* ended (fail = "commit_end": the table keeps its rows and the objects    *)
(* keep the values written).                                               *)

FailPoints == {"none", "get", "exec", "commit", "commit_end", "refresh"}
SessionErrors == {"OperationalError", "TimeoutError"}

RowIds(rows) == {rows[i].id : i \in 1 .. Len(rows)}

RECURSIVE SetMax(_)
SetMax(S) ==
    IF S = {} THEN 0
    ELSE LET x == CHOOSE y \in S : TRUE
         IN Max(x, SetMax(S \ {x}))

(* The id SQLite gives a row inserted without one: 1 in an empty table,    *)
(* otherwise one more than the largest id in the table.                    *)
GeneratedId(rows) == SetMax(RowIds(rows)) + 1

WithoutRow(rows, id) == SelectSeq(rows, LAMBDA e : e.id # id)

InsertRow(rows, e) ==
    SelectSeq(rows, LAMBDA r : r.id < e.id) \o <<e>> \o SelectSeq(rows, LAMBDA r : r.id > e.id)

RowOf(rows, id) ==
    IF id \in RowIds(rows) THEN <<rows[FirstIndex(rows, id)]>> ELSE << >>

(* One registered change written to the table.  ok is FALSE when the table *)
(* refuses it: a primary key that is NULL or already in use.               *)
FlushOne(rows, op) ==
    CASE op.kind = "insert" ->
             LET id == IF op.item.id = NoneId THEN GeneratedId(rows) ELSE op.item.id
                 e == [op.item EXCEPT !.id = id]
             IN IF id \in RowIds(rows)
                THEN [ok |-> FALSE, rows |-> rows, item |-> op.item]
                ELSE [ok |-> TRUE, rows |-> InsertRow(rows, e), item |-> e]
      [] op.kind = "update" ->
             IF op.item.id = NoneId \/ op.item.id \in RowIds(WithoutRow(rows, op.key))
             THEN [ok |-> FALSE, rows |-> rows, item |-> op.item]
             ELSE [ok |-> TRUE, rows |-> InsertRow(WithoutRow(rows, op.key), op.item),
                   item |-> op.item]
      [] op.kind = "delete" ->
             [ok |-> TRUE, rows |-> WithoutRow(rows, op.key), item |-> op.item]

RECURSIVE Flush(_, _, _)
Flush(rows, pending, item) ==
    IF pending = << >> THEN [ok |-> TRUE, rows |-> rows, item |-> item]
    ELSE LET f == FlushOne(rows, Head(pending))
         IN IF f.ok THEN Flush(f.rows, Tail(pending), <<f.item>>)
            ELSE [ok |-> FALSE, rows |-> rows, item |-> item]

Start(sess) ==
    [rows |-> sess.rows, pending |-> sess.pending, broken |-> sess.broken,
     held |-> sess.held, log |-> << >>, raised |-> "none", item |-> << >>]

(* A session method that talks to the database: nothing happens once the   *)
(* call has raised; it raises on a broken session and at the fail point;   *)
(* otherwise the run continues as y.                                       *)
Talk(x, name, fail, err, y) ==
    IF x.raised # "none" THEN x
    ELSE IF x.broken
         THEN [x EXCEPT !.log = Append(@, name), !.raised = "PendingRollbackError"]
    ELSE IF fail = name
         THEN [x EXCEPT !.log = Append(@, name), !.raised = err,
                        !.pending = IF name = "commit" THEN << >> ELSE @,
                        !.broken = (name = "commit")]
    ELSE [y EXCEPT !.log = Append(x.log, name)]

(* The object the session holds under the identity id, if any *)
HeldOf(held, id) ==
    IF held # << >> /\ held[1].key = id THEN <<held[1].item>> ELSE << >>

(* What the session holds after a commit that wrote the registered change  *)
(* op and could not end the transaction: the object inserted or updated,   *)
(* under the id it was written with.                                       *)
HeldAfter(op, item) ==
    IF op.kind = "delete" THEN << >>
    ELSE <<[key |-> item.id, item |-> item]>>

SessGet(x, id, fail, err) ==
    IF x.raised = "none" /\ HeldOf(x.held, id) # << >>
    THEN [x EXCEPT !.log = Append(@, "get"), !.item = HeldOf(x.held, id)]
    ELSE Talk(x, "get", fail, err, [x EXCEPT !.item = RowOf(x.rows, id)])

SessExec(x, fail, err) == Talk(x, "exec", fail, err, x)

SessAdd(x, op) ==
    IF x.raised # "none" THEN x
    ELSE IF op.kind = "update" /\ HeldOf(x.held, op.key) # << >>
         THEN [x EXCEPT !.log = Append(@, "add"), !.item = <<op.item>>,
                        !.held = <<[key |-> op.key, item |-> op.item]>>]
    ELSE [x EXCEPT !.log = Append(@, "add"), !.pending = Append(@, op), !.item = <<op.item>>]

SessDelete(x, op) ==
    IF x.raised # "none" THEN x
    ELSE IF HeldOf(x.held, op.key) # << >>
         THEN [x EXCEPT !.log = Append(@, "delete")]
    ELSE [x EXCEPT !.log = Append(@, "delete"), !.pending = Append(@, op)]

SessCommit(x, fail, err) ==
    LET f == Flush(x.rows, x.pending, x.item)
    IN IF fail = "commit_end" /\ x.raised = "none" /\ ~x.broken /\ f.ok
       THEN [x EXCEPT !.log = Append(@, "commit"), !.raised = err,
                      !.pending = << >>, !.broken = TRUE,
                      !.held = IF x.pending = << >> THEN @
                               ELSE HeldAfter(Head(x.pending), f.item[1])]
       ELSE
       Talk(x, "commit", fail, err,
            IF f.ok
            THEN [x EXCEPT !.rows = f.rows, !.pending = << >>, !.item = f.item]
            ELSE [x EXCEPT !.raised = "IntegrityError", !.pending = << >>, !.broken = TRUE])

SessRefresh(x, fail, err) ==
    Talk(x, "refresh", fail, err, [x EXCEPT !.item = RowOf(x.rows, x.item[1].id)])

-----------------------------------------------------------------------------
(* DatabaseAdapter.  Every method is a pure function of the session it     *)
(* starts from, its arguments and the failure that strikes; it yields the  *)
(* session it leaves, what the caller gets (outcome is "entity", "None",   *)
(* "list", "True", "False", "int", or the name of the error raised; ret    *)
(* and n as for MemoryAdapter) and the log of the session methods called.  *)

DbResult(x, outcome, ret, n) ==
    [session |-> [rows |-> x.rows, pending |-> x.pending, broken |-> x.broken,
                  held |-> x.held],
     outcome |-> outcome, ret |-> ret, n |-> n, log |-> x.log]

Finish(x, outcome, ret, n) ==
    IF x.raised # "none" THEN DbResult(x, x.raised, << >>, 0)
    ELSE DbResult(x, outcome, ret, n)

(* The fields User declares (tests/conftest.py) *)
Fields == {"id", "name", "email"}

(* Keys outside the declared fields that a caller passes to update:        *)
(* "nickname" names nothing a User has, "model_dump" names a method every  *)
(* entity has.  The extra key of a mapping holds the name of the key; it   *)
(* comes first in the dict.                                                *)
ExtraKeys == {"nickname", "model_dump"}

DbMappings ==
    Mappings \cup {[NoMapping EXCEPT !.name = n, !.extra = key] :
                       n \in {MissingStr} \cup Names, key \in ExtraKeys}

(* hasattr(item, key): true for every attribute of the entity, a declared  *)
(* field or not.                                                           *)
HasAttr(key) == key \in Fields \cup {"model_dump"}

(* setattr(item, key, value) on an attribute that is no field: the entity  *)
(* refuses the assignment with a ValueError.                               *)
SetAttrRaises(data) ==
    data.extra # MissingStr /\ HasAttr(data.extra) /\ data.extra \notin Fields

(* for key, value in data.items(): if hasattr(item, key): setattr(...)     *)
SetAttrs(item, data) ==
    [id |-> IF data.id # Missing /\ HasAttr("id") THEN data.id ELSE item.id,
     name |-> IF data.name # MissingStr /\ HasAttr("name") THEN data.name ELSE item.name,
     email |-> IF data.email # MissingStr /\ HasAttr("email") THEN data.email
               ELSE item.email]

(* OFFSET skip LIMIT limit over the table: SQLite reads a negative offset  *)
(* as 0 and a negative limit as no limit.                                  *)
SqlWindow(rows, skip, limit) ==
    LET lo == Max(skip, 0)
        hi == IF limit < 0 THEN Len(rows) ELSE Min(Len(rows), lo + limit)
    IN IF lo >= hi THEN << >> ELSE SubSeq(rows, lo + 1, hi)

(* Mutant of DbCreate: a commit that raised is attempted a second time.    *)
DbCreate_RetriesCommit(sess, data, fail, err) ==
    IF ~Valid(data) THEN DbResult(Start(sess), "ValidationError", << >>, 0)
    ELSE LET a == SessAdd(Start(sess), [kind |-> "insert", key |-> 0, item |-> Construct(data)])
             c1 == SessCommit(a, fail, err)
             c2 == IF c1.raised = "none" THEN c1
                   ELSE [SessCommit([a EXCEPT !.log = c1.log], "none", err)
                            EXCEPT !.raised = c1.raised]
             x == SessRefresh(c2, fail, err)
         IN Finish(x, "entity", x.item, 0)

(* Mutant of DbCreate: the entity is returned as constructed, once the     *)
(* commit is done, without a refresh.                                      *)
DbCreate_ReturnsBeforeRefresh(sess, data, fail, err) ==
    IF ~Valid(data) THEN DbResult(Start(sess), "ValidationError", << >>, 0)
    ELSE LET a == SessAdd(Start(sess), [kind |-> "insert", key |-> 0, item |-> Construct(data)])
             x == SessCommit(a, fail, err)
         IN Finish(x, "entity", <<Construct(data)>>, 0)

(* DatabaseAdapter.create(data): the entity is constructed (validated, as  *)
(* in MemoryAdapter), added, committed and refreshed.                      *)
DbCreate(sess, data, fail, err) ==
    IF ~Valid(data) THEN DbResult(Start(sess), "ValidationError", << >>, 0)
    ELSE LET a == SessAdd(Start(sess), [kind |-> "insert", key |-> 0, item |-> Construct(data)])
             x == SessRefresh(SessCommit(a, fail, err), fail, err)
         IN Finish(x, "entity", x.item, 0)

(* DatabaseAdapter.get(id) *)
DbGet(sess, id, fail, err) ==
    LET x == SessGet(Start(sess), id, fail, err)
    IN Finish(x, IF x.item = << >> THEN "None" ELSE "entity", x.item, 0)

(* DatabaseAdapter.list(skip, limit) *)
DbList(sess, skip, limit, fail, err) ==
    LET x == SessExec(Start(sess), fail, err)
    IN Finish(x, "list", SqlWindow(x.rows, skip, limit), 0)

(* Mutant of DbUpdate: the commit also runs when no entity was found.      *)
DbUpdate_CommitsAnyway(sess, id, data, fail, err) ==
    LET g == SessGet(Start(sess), id, fail, err)
        a == IF g.item = << >> THEN g
             ELSE SessAdd(g, [kind |-> "update", key |-> id, item |-> SetAttrs(g.item[1], data)])
        c == SessCommit(a, fail, err)
        x == IF g.item = << >> THEN c ELSE SessRefresh(c, fail, err)
    IN Finish(x, IF g.item = << >> THEN "None" ELSE "entity", x.item, 0)

(* DatabaseAdapter.update(id, data) *)
DbUpdate(sess, id, data, fail, err) ==
    LET g == SessGet(Start(sess), id, fail, err)
    IN IF g.raised # "none" \/ g.item = << >> THEN Finish(g, "None", << >>, 0)
       ELSE IF SetAttrRaises(data) THEN DbResult(g, "ValueError", << >>, 0)
       ELSE LET a == SessAdd(g, [kind |-> "update", key |-> id,
                                 item |-> SetAttrs(g.item[1], data)])
                x == SessRefresh(SessCommit(a, fail, err), fail, err)
            IN Finish(x, "entity", x.item, 0)

(* DatabaseAdapter.delete(id) *)
DbDelete(sess, id, fail, err) ==
    LET g == SessGet(Start(sess), id, fail, err)
    IN IF g.raised # "none" \/ g.item = << >> THEN Finish(g, "False", << >>, 0)
       ELSE Finish(SessCommit(SessDelete(g, [kind |-> "delete", key |-> id,
                                             item |-> g.item[1]]), fail, err),
                   "True", << >>, 0)

(* DatabaseAdapter.count() *)
DbCount(sess, fail, err) ==
    LET x == SessExec(Start(sess), fail, err)
    IN Finish(x, "int", << >>, Len(x.rows))

DbCall(sess, k, fail, err) ==
    CASE k.op = "create" -> DbCreate(sess, k.p, fail, err)
      [] k.op = "get"    -> DbGet(sess, k.id, fail, err)
      [] k.op = "list"   -> DbList(sess, k.skip, k.limit, fail, err)
      [] k.op = "update" -> DbUpdate(sess, k.id, k.p, fail, err)
      [] k.op = "delete" -> DbDelete(sess, k.id, fail, err)
      [] k.op = "count"  -> DbCount(sess, fail, err)

(* The session methods each adapter method calls, so the places where a    *)
(* failure can strike it.                                                  *)
FailsOf(op) ==
    CASE op = "create" -> {"commit", "commit_end", "refresh"}
      [] op = "get"    -> {"get"}
      [] op = "list"   -> {"exec"}
      [] op = "update" -> {"get", "commit", "commit_end", "refresh"}
      [] op = "delete" -> {"get", "commit", "commit_end"}
      [] op = "count"  -> {"exec"}

FailCases(op) ==
    {<<"none", "none">>} \cup {<<f, e>> : f \in FailsOf(op) \cap FailPoints, e \in SessionErrors}

DbRecord(k, f, r) ==
    [op |-> k.op, id |-> k.id, p |-> k.p, skip |-> k.skip, limit |-> k.limit,
     fail |-> f[1], err |-> f[2],
     outcome |-> r.outcome, ret |-> r.ret, n |-> r.n, log |-> r.log, s0 |-> session]

(* One adapter call, recorded in dbLast when rec; a recorded call ends the *)
(* run.  create is called while the table holds fewer than MaxLen rows and *)
(* no id above MaxId, and while nothing is left registered in the session  *)
(* (on a broken session add still registers the object and the commit      *)
(* raises, so every further create would add one more pending object).     *)
(* A session that holds an object the table does not have takes one more   *)
(* call, the recorded one.                                                 *)
dbApply(k, f, rec) ==
    LET r == DbCall(session, k, f[1], f[2])
    IN /\ ~rec => session.held = << >>
       /\ session' = r.session
       /\ dbLast' = IF rec THEN DbRecord(k, f, r) ELSE NoDbCall
       /\ UNCHANGED <<memVars, isoVars, pairLast, facVars, concVars>>

dbCreate(data, f, rec) ==
    /\ Len(session.rows) < MaxLen
    /\ GeneratedId(session.rows) <= MaxId
    /\ session.pending = << >>
    /\ dbApply(CallOf("create", 0, data, 0, 0), f, rec)

dbGet(id, f) == dbApply(CallOf("get", id, NoMapping, 0, 0), f, TRUE)

dbList(skip, limit, f) == dbApply(CallOf("list", 0, NoMapping, skip, limit), f, TRUE)

dbUpdate(id, data, f, rec) == dbApply(CallOf("update", id, data, 0, 0), f, rec)

dbDelete(id, f, rec) == dbApply(CallOf("delete", id, NoMapping, 0, 0), f, rec)

dbCount(f) == dbApply(CallOf("count", 0, NoMapping, 0, 0), f, TRUE)

DbNext ==
    \/ dbLast = NoDbCall /\ \E data \in Mappings, f \in FailCases("create"), rec \in BOOLEAN :
           dbCreate(data, f, rec)
    \/ dbLast = NoDbCall /\ \E id \in IdArgs, f \in FailCases("get") : dbGet(id, f)
    \/ dbLast = NoDbCall /\ \E skip \in SkipArgs, limit \in LimitArgs, f \in FailCases("list") :
           dbList(skip, limit, f)
    \/ dbLast = NoDbCall /\ \E id \in IdArgs, data \in DbMappings, f \in FailCases("update"),
                              rec \in BOOLEAN : dbUpdate(id, data, f, rec)
    \/ dbLast = NoDbCall /\ \E id \in IdArgs, f \in FailCases("delete"), rec \in BOOLEAN :
           dbDelete(id, f, rec)
    \/ dbLast = NoDbCall /\ \E f \in FailCases("count") : dbCount(f)

SpecDb == Init /\ [][DbNext]_vars

-----------------------------------------------------------------------------
(* Properties of DatabaseAdapter (SpecDb) *)

CountIn(log, name) == Cardinality({i \in 1 .. Len(log) : log[i] = name})

Returned == dbLast.outcome \in {"entity", "None", "list", "True", "False", "int"}

Mutating == dbLast.op \in {"create", "update", "delete"}

C18_SessionErrorPropagates ==
    Mutating =>
        /\ CountIn(dbLast.log, "commit") <= 1
        /\ (~dbLast.s0.broken /\ CountIn(dbLast.log, dbLast.fail) > 0) =>
               /\ dbLast.outcome = dbLast.err
               /\ dbLast.log[Len(dbLast.log)] = dbLast.fail
               /\ CountIn(dbLast.log, dbLast.fail) = 1
        /\ (~Returned /\ dbLast.outcome \notin {"ValidationError", "ValueError"}) =>
               /\ dbLast.log # << >>
               /\ dbLast.log[Len(dbLast.log)] \in FailsOf(dbLast.op)
               /\ CountIn(dbLast.log, dbLast.log[Len(dbLast.log)]) = 1
        /\ (dbLast.s0.broken /\ dbLast.log # << >> /\ dbLast.outcome \notin {"ValidationError", "ValueError"}) =>
               dbLast.outcome = "PendingRollbackError"

C18_Witness ==
    /\ dbLast.op = "create"
    /\ dbLast.fail = "commit"
    /\ dbLast.outcome = "TimeoutError"
    /\ dbLast.log = <<"add", "commit">>
    /\ session.rows = dbLast.s0.rows
    /\ Len(session.rows) = 1

-----------------------------------------------------------------------------
(* A MemoryAdapter and a DatabaseAdapter, both started empty and driven by *)
(* the same sequence of calls (AdapterTestSuite runs the same tests on     *)
(* either).  The session does not fail by itself here; the table can still *)
(* refuse a commit.                                                        *)

(* Mappings with or without an id and a name, and windows that start at 0  *)
(* or later.                                                               *)
PairMappings == {m \in Mappings : m.email = "x"}

PairCalls ==
    {CallOf("create", 0, m, 0, 0) : m \in PairMappings}
        \cup {CallOf("get", id, NoMapping, 0, 0) : id \in IdVals}
        \cup {CallOf("list", 0, NoMapping, skip, limit) :
                  skip \in 0 .. MaxLen, limit \in 0 .. MaxLen}
        \cup {CallOf("update", id, m, 0, 0) : id \in IdVals, m \in PairMappings}
        \cup {CallOf("delete", id, NoMapping, 0, 0) : id \in IdVals}
        \cup {CallOf("count", 0, NoMapping, 0, 0)}

pairCall(k, rec) ==
    /\ k.op = "create" =>
           /\ Len(_data) < MaxLen /\ _counter <= MaxId
           /\ Len(session.rows) < MaxLen /\ GeneratedId(session.rows) <= MaxId
           /\ session.pending = << >>
    /\ LET m == MemCall(_data, _counter, k)
           d == DbCall(session, k, "none", "none")
       IN /\ _data' = m.data
          /\ _counter' = m.counter
          /\ session' = d.session
          /\ pairLast' = IF rec
                         THEN [op |-> k.op, call |-> k,
                               mem |-> [outcome |-> m.outcome, ret |-> m.ret, n |-> m.n],
                               db |-> [outcome |-> d.outcome, ret |-> d.ret, n |-> d.n]]
                         ELSE NoPair
    /\ UNCHANGED <<last, lastAuto, lastAssigned, netCreated, isoVars, dbLast, facVars, concVars>>

PairNext == pairLast = NoPair /\ \E k \in PairCalls, rec \in BOOLEAN : pairCall(k, rec)

SpecPair == Init /\ [][PairNext]_vars

(* C19: driven by the same calls from empty, the two adapters return the   *)
(* same result at every step: whenever both return, the same outcome       *)
(* (entity or absent, True or False), the same entity with the same id,    *)
(* the same list in the same order and the same count.                     *)
C19_BackendsInterchangeable ==
    (/\ pairLast.op # "none"
     /\ pairLast.mem.outcome \in {"entity", "None", "list", "True", "False", "int"}
     /\ pairLast.db.outcome \in {"entity", "None", "list", "True", "False", "int"})
        => pairLast.mem = pairLast.db

-----------------------------------------------------------------------------
(* CRUDMeta and CRUDBase (src/src/zerocrud/core.py).  A type argument is   *)
(* "User" (an entity type), "T" (a type variable) or "none" (the base is   *)
(* not subscripted); a model is "User", "T" or "None".                     *)

ClassNames == {"CRUDBase", "UserRepository"}
TypeArgs == {"none", "User", "T"}

(* The class type.__init__ hands to CRUDMeta.__init__: model and, when the *)
(* base is not subscripted, __orig_bases__ are found on the base.  arg and *)
(* inherited keep what the definition said and what the base had.          *)
NewClass(name, base, arg) ==
    [name |-> name,
     orig_bases |-> IF arg = "none" THEN base.orig_bases
                    ELSE <<[origin |-> base.name, args |-> <<arg>>]>>,
     model |-> base.model, generic |-> (arg = "T"), error |-> "none",
     arg |-> arg, inherited |-> base.model]

(* The loop over cls.__orig_bases__: the model it leaves in cls.model *)
RECURSIVE ScanOrigBases(_, _)
ScanOrigBases(obs, model) ==
    IF obs = << >> THEN model
    ELSE ScanOrigBases(Tail(obs),
                       IF Head(obs).origin = "CRUDBase" /\ Head(obs).args # << >>
                       THEN Head(obs).args[1] ELSE model)

(* CRUDMeta.__init__(cls, name, bases, dct) *)
CRUDMetaInit(name, base, arg) ==
    LET cls == NewClass(name, base, arg)
        m == ScanOrigBases(cls.orig_bases, cls.model)
    IN IF name = "CRUDBase" THEN cls
       ELSE IF m = "None" THEN [cls EXCEPT !.error = "ModelTypeRequiredError"]
       ELSE [cls EXCEPT !.model = m]

(* CRUDBase.list(skip=0, limit=100) *)
DefaultLimit == 100

(* The end-to-end scenario of test_complete_crud_workflow_memory, with "a" *)
(* for Alice, "b" for Alice Smith and "x" for the email.                   *)
Script ==
    << CallOf("create", 0, [NoMapping EXCEPT !.name = "a", !.email = "x"], 0, 0),
       CallOf("get", 1, NoMapping, 0, 0),
       CallOf("update", 1, [NoMapping EXCEPT !.name = "b"], 0, 0),
       CallOf("list", 0, NoMapping, 0, DefaultLimit),
       CallOf("count", 0, NoMapping, 0, 0),
       CallOf("delete", 1, NoMapping, 0, 0),
       CallOf("count", 0, NoMapping, 0, 0),
       CallOf("get", 1, NoMapping, 0, 0) >>

FacadeCalls == SmallCalls \cup {Script[i] : i \in 1 .. Len(Script)}

(* Mutant of Forward: list hands its arguments to the adapter in the wrong *)
(* order.                                                                  *)
Forward_ListArgsSwapped(adapter, k, s, c, sess) ==
    LET k2 == IF k.op = "list" THEN [k EXCEPT !.skip = k.limit, !.limit = k.skip] ELSE k
        m == MemCall(s, c, k2)
        d == DbCall(sess, k2, "none", "none")
    IN IF adapter = "memory"
       THEN [data |-> m.data, counter |-> m.counter, session |-> sess,
             res |-> [outcome |-> m.outcome, ret |-> m.ret, n |-> m.n]]
       ELSE [data |-> s, counter |-> c, session |-> d.session,
             res |-> [outcome |-> d.outcome, ret |-> d.ret, n |-> d.n]]

(* CRUDBase.create / get / list / update / delete / count: the call goes   *)
(* to the bound adapter as it is, and its result comes back as it is.      *)
Forward(adapter, k, s, c, sess) ==
    LET m == MemCall(s, c, k)
        d == DbCall(sess, k, "none", "none")
    IN IF adapter = "memory"
       THEN [data |-> m.data, counter |-> m.counter, session |-> sess,
             res |-> [outcome |-> m.outcome, ret |-> m.ret, n |-> m.n]]
       ELSE [data |-> s, counter |-> c, session |-> d.session,
             res |-> [outcome |-> d.outcome, ret |-> d.ret, n |-> d.n]]

(* Strings that storage_type() works on are sequences of characters.       *)
(* type(self.adapter).__name__ for the two adapter classes.                *)
TypeName(adapter) ==
    IF adapter = "memory"
    THEN <<"M", "e", "m", "o", "r", "y", "A", "d", "a", "p", "t", "e", "r">>
    ELSE <<"D", "a", "t", "a", "b", "a", "s", "e", "A", "d", "a", "p", "t", "e", "r">>

(* s.startswith(old) *)
StartsWith(s, old) ==
    Len(s) >= Len(old) /\ SubSeq(s, 1, Len(old)) = old

(* str.replace(old, new): every occurrence of old, left to right and not   *)
(* overlapping, becomes new.                                               *)
RECURSIVE StrReplace(_, _, _)
StrReplace(s, old, new) ==
    IF s = << >> THEN << >>
    ELSE IF StartsWith(s, old)
         THEN new \o StrReplace(SubSeq(s, Len(old) + 1, Len(s)), old, new)
         ELSE <<Head(s)>> \o StrReplace(Tail(s), old, new)

(* str.lower() on the letters of the class names *)
LowerChar(ch) ==
    CASE ch = "M" -> "m"
      [] ch = "D" -> "d"
      [] ch = "A" -> "a"
      [] OTHER -> ch

StrLower(s) == [i \in 1 .. Len(s) |-> LowerChar(s[i])]

(* Mutant of StorageType: the answer is the storage argument of the        *)
(* constructor.                                                            *)
StorageType_FromArgument(f) ==
    IF f.storage = "memory" THEN <<"m", "e", "m", "o", "r", "y">>
    ELSE IF f.storage = "database"
         THEN <<"d", "a", "t", "a", "b", "a", "s", "e">>
         ELSE <<"n", "o", "n", "e">>

(* CRUDBase.storage_type():                                                *)
(* type(self.adapter).__name__.replace("Adapter", "").lower()              *)
StorageType(f) ==
    StrLower(StrReplace(TypeName(f.adapter), <<"A", "d", "a", "p", "t", "e", "r">>, << >>))

(* class name(base[arg]) or class name(base): base is CRUDBase itself or   *)
(* the subtype defined before; only a generic class can be subscripted.    *)
define(name, base, arg) ==
    /\ ~facade.built
    /\ base.error = "none"
    /\ arg # "none" => base.generic
    /\ subtype' = CRUDMetaInit(name, base, arg)
    /\ UNCHANGED <<facade, step, fres, memVars, isoVars, dbVars, pairLast, concVars>>

(* subtype(session=sess, storage=storage) *)
construct(storage, sess) ==
    /\ ~facade.built
    /\ subtype.error = "none"
    /\ facade' = [built |-> TRUE, storage |-> storage, session |-> sess,
                  adapter |-> IF SelectBackend(storage, sess) = "ValueError" THEN "none"
                              ELSE SelectBackend(storage, sess),
                  error |-> IF SelectBackend(storage, sess) = "ValueError" THEN "ValueError"
                            ELSE "none"]
    /\ UNCHANGED <<subtype, step, fres, memVars, isoVars, dbVars, pairLast, concVars>>

(* One call on a facade whose model is an entity type.  create is called   *)
(* within the bounds of either adapter.                                    *)
facadeCall(k) ==
    /\ facade.adapter # "none"
    /\ subtype.model = "User"
    /\ (k.op = "create" /\ facade.adapter = "memory") =>
           Len(_data) < MaxLen /\ _counter <= MaxId
    /\ (k.op = "create" /\ facade.adapter = "database") =>
           /\ Len(session.rows) < MaxLen /\ GeneratedId(session.rows) <= MaxId
           /\ session.pending = << >>
    /\ LET r == Forward(facade.adapter, k, _data, _counter, session)
           onScript == step < Len(Script) /\ k = Script[step + 1]
       IN /\ _data' = r.data
          /\ _counter' = r.counter
          /\ session' = r.session
          /\ step' = IF onScript THEN step + 1 ELSE Len(Script) + 1
          /\ fres' = IF onScript THEN r.res ELSE NoRes
    /\ UNCHANGED <<subtype, facade, last, lastAuto, lastAssigned, netCreated,
                   isoVars, dbLast, pairLast, concVars>>

(* facade.storage_type(): reads the class of the bound adapter and writes  *)
(* nothing; the result is what the caller sees.                            *)
storageType ==
    /\ facade.adapter # "none"
    /\ step' = Len(Script) + 1
    /\ fres' = [outcome |-> "str", ret |-> StorageType(facade), n |-> 0]
    /\ UNCHANGED <<subtype, facade, memVars, isoVars, dbVars, pairLast, concVars>>

FacadeNext ==
    \/ \E name \in ClassNames, base \in {CRUDBase, subtype}, arg \in TypeArgs :
           define(name, base, arg)
    \/ \E storage \in StorageArgs, sess \in SessionArgs : construct(storage, sess)
    \/ \E k \in FacadeCalls : facadeCall(k)
    \/ storageType

SpecFacade == Init /\ [][FacadeNext]_vars

-----------------------------------------------------------------------------
(* Properties of the facade (SpecFacade) *)

(* C13: the backend a constructed facade binds is a function of (storage,  *)
(* session): "memory" gives the memory adapter with or without a session;  *)
(* "database" with a session gives the database adapter, without one it    *)
(* raises and binds no adapter; no storage gives the database adapter with *)
(* a session and the memory adapter without.                               *)
C13_BackendSelection ==
    facade.built =>
        /\ facade.storage = "memory" =>
               facade.adapter = "memory" /\ facade.error = "none"
        /\ (facade.storage = "database" /\ facade.session = "Session") =>
               facade.adapter = "database" /\ facade.error = "none"
        /\ (facade.storage = "database" /\ facade.session = "None") =>
               facade.adapter = "none" /\ facade.error = "ValueError"
        /\ (facade.storage = "None" /\ facade.session = "Session") =>
               facade.adapter = "database" /\ facade.error = "none"
        /\ (facade.storage = "None" /\ facade.session = "None") =>
               facade.adapter = "memory" /\ facade.error = "none"

C13_Witness ==
    /\ facade.built
    /\ facade.storage = "memory"
    /\ facade.session = "Session"
    /\ facade.adapter = "memory"
    /\ _data # << >>

(* C14: a subtype defined with no entity type, its own or inherited,       *)
(* raises ModelTypeRequiredError at its definition, and a subtype whose    *)
(* definition succeeds has an entity type as its model.                    *)
C14_SubtypeNeedsEntityType ==
    subtype # CRUDBase =>
        /\ (subtype.arg = "none" /\ subtype.inherited = "None") =>
               subtype.error = "ModelTypeRequiredError"
        /\ subtype.error = "none" => subtype.model = "User"

(* C15: on a newly constructed memory-backed facade the scenario runs as   *)
(* the test says: create returns id 1; get(1) has the name; update returns *)
(* the new name and the old email; list() has one entity and count() is 1; *)
(* delete(1) returns True; then count() is 0 and get(1) is absent.         *)
C15_EndToEnd ==
    (facade.adapter = "memory" /\ step \in 1 .. Len(Script)) =>
        /\ step = 1 => fres.outcome = "entity" /\ fres.ret[1].id = 1
        /\ step = 2 => fres.outcome = "entity" /\ fres.ret[1].name = "a"
        /\ step = 3 => /\ fres.outcome = "entity"
                       /\ fres.ret[1].name = "b"
                       /\ fres.ret[1].email = "x"
        /\ step = 4 => fres.outcome = "list" /\ Len(fres.ret) = 1
        /\ step = 5 => fres.outcome = "int" /\ fres.n = 1
        /\ step = 6 => fres.outcome = "True"
        /\ step = 7 => fres.outcome = "int" /\ fres.n = 0
        /\ step = 8 => fres.outcome = "None"

C15_Witness ==
    /\ facade.adapter = "memory"
    /\ step = Len(Script)
    /\ fres.outcome = "None"
    /\ _counter = 2

-----------------------------------------------------------------------------
(* Further properties of MemoryAdapter (Spec) *)

(* C22: no call lowers the counter: after every call, failed ones among    *)
(* them, the counter is at least what it was before; delete leaves it as   *)
(* it was.                                                                 *)
C22_CounterNeverDecreases ==
    last.op # "none" =>
        /\ _counter >= last.c0
        /\ last.op = "delete" => _counter = last.c0
        /\ last.op = "create" => _counter > last.c0

C22_Witness ==
    /\ last.op = "create"
    /\ last.outcome = "ValidationError"
    /\ last.p.id \in IdVals
    /\ last.p.id < last.c0
    /\ _counter = last.c0 + 1

(* C23: an update that returns an entity puts it at the index of the first *)
(* entity with the id; the length of the list, the counter and every other *)
(* entity at its index are as before.                                      *)
C23_UpdateInPlace ==
    (last.op = "update" /\ last.outcome = "entity") =>
        /\ Len(_data) = Len(last.d0)
        /\ _counter = last.c0
        /\ _data[FirstIndex(last.d0, last.id)] = last.ret[1]
        /\ \A j \in 1 .. Len(last.d0) :
               j # FirstIndex(last.d0, last.id) => _data[j] = last.d0[j]

C23_Witness ==
    /\ last.op = "update"
    /\ last.outcome = "entity"
    /\ Len(last.d0) = 2
    /\ last.d0[1].id = last.d0[2].id
    /\ last.d0[1].name = last.d0[2].name
    /\ _data[1].name # last.d0[1].name
    /\ _data[2] = last.d0[2]

(* C24: a delete that returns True removes one element, the first entity   *)
(* with the id (the one get(id) returned); the other entities keep their   *)
(* order and the counter is unchanged.                                     *)
C24_DeleteRemovesFirstMatch ==
    (last.op = "delete" /\ last.outcome = "True") =>
        LET i == FirstIndex(last.d0, last.id)
        IN /\ i # 0
           /\ MemGet(last.d0, last.c0, last.id).ret = << last.d0[i] >>
           /\ _data = SubSeq(last.d0, 1, i - 1) \o SubSeq(last.d0, i + 1, Len(last.d0))
           /\ _counter = last.c0

C24_Witness ==
    /\ last.op = "delete"
    /\ last.outcome = "True"
    /\ Len(last.d0) = 2
    /\ last.d0[1].id = last.d0[2].id
    /\ last.d0[1] # last.d0[2]
    /\ _data = << last.d0[2] >>

(* C29: every create call is assigned an id above the id assigned to the   *)
(* create call before it, and a create that returns an entity returns the  *)
(* id it was assigned: the ids successive creates return rise strictly,    *)
(* whatever other calls and failed creates come in between.                *)
C29_CreatedIdsIncrease ==
    last.op = "create" =>
        /\ lastAssigned > last.assigned0
        /\ Created => last.ret[1].id = lastAssigned

C29_Witness ==
    /\ Created
    /\ last.assigned0 = 2
    /\ last.ret[1].id = 3
    /\ last.p.id = 1
    /\ last.d0 = << >>

(* C30: get, list and count change neither the list nor the counter, for   *)
(* any argument, and the same read made again returns the same result.     *)
C30_ReadsArePure ==
    last.op \in {"get", "list", "count"} =>
        /\ _data = last.d0
        /\ _counter = last.c0
        /\ LET again == MemCall(_data, _counter, last)
           IN /\ again.outcome = last.outcome
              /\ again.ret = last.ret
              /\ again.n = last.n
              /\ again.data = _data
              /\ again.counter = _counter

C30_Witness ==
    /\ last.op = "list"
    /\ last.skip > Len(last.d0)
    /\ last.limit < 0
    /\ Len(last.d0) = 2
    /\ last.ret = << >>

-----------------------------------------------------------------------------
(* The adapter binding of a facade (SpecFacade) *)

(* C21: once a facade is constructed, no call changes which adapter it is  *)
(* bound to, and every storage_type() answers "memory" or "database", the  *)
(* backend that the constructor arguments select, the same as the call     *)
(* before it.                                                              *)
C21_AdapterFixed ==
    [][/\ facade.built => facade' = facade
       /\ fres'.outcome = "str" =>
              /\ fres'.ret \in {<<"m", "e", "m", "o", "r", "y">>,
                                <<"d", "a", "t", "a", "b", "a", "s", "e">>}
              /\ (fres'.ret = <<"m", "e", "m", "o", "r", "y">>) <=>
                     (SelectBackend(facade.storage, facade.session) = "memory")
              /\ fres.outcome = "str" => fres'.ret = fres.ret]_vars

C21_Witness ==
    /\ fres.outcome = "str"
    /\ fres.ret = <<"d", "a", "t", "a", "b", "a", "s", "e">>
    /\ facade.storage = "None"
    /\ facade.session = "Session"
    /\ Len(session.rows) = MaxLen

-----------------------------------------------------------------------------
(* Further properties of DatabaseAdapter (SpecDb) *)

(* The entity the recorded call found in the session it started from *)
Found == RowOf(dbLast.s0.rows, dbLast.id)

(* C25: an update of a stored entity, with no failure of the session and   *)
(* no refusal by the table, returns the entity with every supplied         *)
(* declared field set to the supplied value and every other declared field *)
(* as it was, whatever key outside the declared fields the data carries.   *)
C25_UpdateSetsDeclaredFieldsOnly ==
    (/\ dbLast.op = "update"
     /\ dbLast.fail = "none"
     /\ ~dbLast.s0.broken
     /\ Found # << >>
     /\ dbLast.outcome # "IntegrityError") =>
        /\ dbLast.outcome = "entity"
        /\ dbLast.ret[1].id = IF dbLast.p.id # Missing THEN dbLast.p.id ELSE Found[1].id
        /\ dbLast.ret[1].name =
               IF dbLast.p.name # MissingStr THEN dbLast.p.name ELSE Found[1].name
        /\ dbLast.ret[1].email =
               IF dbLast.p.email # MissingStr THEN dbLast.p.email ELSE Found[1].email

(* The recorded call's commit raised *)
CommitRaised ==
    /\ Mutating
    /\ ~Returned
    /\ dbLast.log # << >>
    /\ dbLast.log[Len(dbLast.log)] = "commit"

(* C26: after a create, update or delete whose commit raised, the table    *)
(* holds the rows it held before the call, and a get through the same      *)
(* session, when it answers, answers what it would have answered before    *)
(* the call, for every id.                                                 *)
C26_CommitFailureLeavesNoChange ==
    (CommitRaised /\ ~dbLast.s0.broken) =>
        /\ session.rows = dbLast.s0.rows
        /\ \A id \in IdArgs :
               LET after == DbGet(session, id, "none", "none")
                   before == DbGet(dbLast.s0, id, "none", "none")
               IN after.outcome \in {"entity", "None"} =>
                      /\ after.outcome = before.outcome
                      /\ after.ret = before.ret

(* C27: a create or update that returns an entity has called add, then     *)
(* commit, then refresh, each once and refresh last; the entity returned   *)
(* is the row the table holds after the commit, so it has an id, and for a *)
(* create without an id the id the table generated.                        *)
C27_AddCommitRefreshInOrder ==
    (dbLast.op \in {"create", "update"} /\ dbLast.outcome = "entity") =>
        LET n == Len(dbLast.log)
        IN /\ n >= 3
           /\ SubSeq(dbLast.log, n - 2, n) = <<"add", "commit", "refresh">>
           /\ \A name \in {"add", "commit", "refresh"} : CountIn(dbLast.log, name) = 1
           /\ dbLast.ret[1].id \in Nat
           /\ RowOf(session.rows, dbLast.ret[1].id) = dbLast.ret
           /\ (dbLast.op = "create" /\ dbLast.p.id = Missing) =>
                  dbLast.ret[1].id = GeneratedId(dbLast.s0.rows)

C27_Witness ==
    /\ dbLast.op = "create"
    /\ dbLast.p.id = Missing
    /\ dbLast.outcome = "entity"
    /\ dbLast.log = <<"add", "commit", "refresh">>
    /\ Len(dbLast.s0.rows) = 1
    /\ dbLast.s0.rows[1].id = 2
    /\ dbLast.ret[1].id = 3

-----------------------------------------------------------------------------
(* MemoryAdapter.create called by two threads on one adapter (SpecConc).   *)
(* Nothing in create takes a lock, so a thread can be interrupted between  *)
(* any two accesses to self._counter and self._data.  One action is one    *)
(* such access by one thread, together with the statements on its own data *)
(* that follow it.                                                         *)

(* The dicts the threads pass: with or without an id, and one that fails   *)
(* validation.                                                             *)
ConcMappings ==
    {[NoMapping EXCEPT !.id = id, !.name = "a", !.email = "x"] : id \in {Missing} \cup IdVals}
        \cup {[NoMapping EXCEPT !.name = "a"]}

Busy(u) == threads[u].pc # "idle"

(* Thread t goes on at pc with its data and the value it has loaded; the   *)
(* step overlaps when another thread is inside create.                     *)
Goto(t, pc, data, tmp) ==
    /\ threads' = [threads EXCEPT ![t] = [pc |-> pc, data |-> data, tmp |-> tmp]]
    /\ overlapped' = (overlapped \/ \E u \in Threads \ {t} : Busy(u))
    /\ UNCHANGED <<last, lastAuto, lastAssigned, netCreated,
                   isoVars, dbVars, pairLast, facVars>>

(* Mutant of Increment: the counter is written back as it was loaded.      *)
Increment_WritesBack(tmp) == tmp

(* self._counter += 1: the value stored for the value loaded               *)
Increment(tmp) == tmp + 1

(* create(data) is entered: "id" in data and data["id"] is not None        *)
(* decides between the comparison and the assignment of the counter.       *)
createBegin(t, data) ==
    /\ ~Busy(t)
    /\ Len(_data) + Cardinality({u \in Threads : Busy(u)}) < MaxLen
    /\ _counter <= MaxId
    /\ Goto(t, IF data.id # Missing /\ data.id # NoneId THEN "compare" ELSE "assign",
            data, 0)
    /\ UNCHANGED <<_data, _counter>>

(* if data["id"] > self._counter *)
createCompare(t) ==
    /\ threads[t].pc = "compare"
    /\ Goto(t, IF threads[t].data.id > _counter THEN "set" ELSE "assign",
            threads[t].data, 0)
    /\ UNCHANGED <<_data, _counter>>

(* self._counter = data["id"] + 1 *)
createSet(t) ==
    /\ threads[t].pc = "set"
    /\ _counter' = threads[t].data.id + 1
    /\ Goto(t, "validate", threads[t].data, 0)
    /\ UNCHANGED _data

(* data["id"] = self._counter *)
createAssign(t) ==
    /\ threads[t].pc = "assign"
    /\ Goto(t, "load", [threads[t].data EXCEPT !.id = _counter], 0)
    /\ UNCHANGED <<_data, _counter>>

(* self._counter += 1, the load *)
createLoad(t) ==
    /\ threads[t].pc = "load"
    /\ Goto(t, "store", threads[t].data, _counter)
    /\ UNCHANGED <<_data, _counter>>

(* self._counter += 1, the store *)
createStore(t) ==
    /\ threads[t].pc = "store"
    /\ _counter' = Increment(threads[t].tmp)
    /\ Goto(t, "validate", threads[t].data, 0)
    /\ UNCHANGED _data

(* item = self.model.model_validate(data); self._data.append(item);        *)
(* return item.  A ValidationError ends the call before the append.        *)
createAppend(t) ==
    /\ threads[t].pc = "validate"
    /\ _data' = IF Valid(threads[t].data)
                THEN Append(_data, Construct(threads[t].data))
                ELSE _data
    /\ Goto(t, "idle", NoMapping, 0)
    /\ UNCHANGED _counter

ConcNext ==
    \/ \E t \in Threads, data \in ConcMappings : createBegin(t, data)
    \/ \E t \in Threads : createCompare(t)
    \/ \E t \in Threads : createSet(t)
    \/ \E t \in Threads : createAssign(t)
    \/ \E t \in Threads : createLoad(t)
    \/ \E t \in Threads : createStore(t)
    \/ \E t \in Threads : createAppend(t)

SpecConc == Init /\ [][ConcNext]_vars

(* Two stored entities have the same id *)
DuplicateIds ==
    \E i \in 1 .. Len(_data), j \in 1 .. Len(_data) : i < j /\ _data[i].id = _data[j].id

(* C28: as long as every create has run to completion before the next one *)
(* started, no two stored entities have the same id; two stored entities   *)
(* with the same id are reached only by creates that overlap.              *)
C28_SerializedCreatesKeepIdsUnique == DuplicateIds => overlapped

(* Two creates without an id, the second reading the counter before the    *)
(* first has incremented it: both entities have id 1 and both increments   *)
(* are done.                                                               *)
C28_Witness ==
    /\ \A t \in Threads : ~Busy(t)
    /\ Len(_data) = 2
    /\ _data[1].id = 1
    /\ _data[2].id = 1
    /\ _counter = 3
    /\ overlapped

====
